---- MODULE Spec2Model ----
(***************************************************************************)
(* Generation orchestration client of owm-studio (src/src/lib/gemini.ts).  *)
(*                                                                         *)
(* One public operation of the client runs from its call to its return or  *)
(* throw.  Every await of the code is a position of pc:                    *)
(*   "init"      the operation has been called, nothing has run yet        *)
(*   "fetch"     callGeminiAPI awaits fetch (one request is in flight)     *)
(*   "backoff"   callGeminiAPI awaits sleep(RETRY_DELAYS[attempt])         *)
(*   "pace"      a batch loop awaits sleep(7000) before its next call      *)
(*   "cooldown"  a batch loop awaits sleep(60000) in its catch block       *)
(*   "done"      the operation has returned or thrown                      *)
(* Text is a sequence of one-character strings, so that template literals, *)
(* String.includes and the regular expressions are computed, not assumed.  *)
(*                                                                         *)
(* The specifications share the variables:                                 *)
(*   Spec         an operation and the upstream's answers to its fetches   *)
(*   SpecLive     Spec, every fetch and sleep eventually completing        *)
(*   SpecBurst    a batch of 4 items on a clock                            *)
(*   SpecPair     two batch calls interleaved in one process               *)
(*   SpecRoute    the generate route around generateDesigns                *)
(*   SpecRequest  the request a function builds from its arguments         *)
(*   SpecRepair   parseJSONWithRepair on one text                          *)
(* each leaving the variables of the others at their idle values.          *)
(***************************************************************************)
EXTENDS Integers, Sequences, FiniteSets, TLC

VARIABLES
    op,        \* the exported function that was called
    count,     \* its count argument (batch functions)
    pc,        \* the await the operation is suspended at
    i,         \* loop index of the batch loop
    attempt,   \* loop variable of callGeminiAPI
    results,   \* the results array of the batch loop
    retval,    \* <<>> until the operation returns v, then <<v>>
    thrown,    \* <<>> until the operation throws e, then <<e>>
    caught,    \* the error the batch loop caught in its latest iteration, if any
    items,     \* how each finished iteration of the batch loop ended
    seen,      \* HTTP statuses answered to the latest callGeminiAPI (0: fetch rejected)
    answer,    \* what the latest fetch of the latest callGeminiAPI answered
    calls,     \* number of callGeminiAPI invocations so far
    inFlight,  \* number of fetch requests awaiting their response
    trace,     \* every fetch issued and every sleep started, in order
    upstream,  \* what the upstream may answer to a fetch of this run
    latency,   \* the time a fetch of this run takes to settle, in ms
    args,      \* request construction: the function and the arguments it is given
    sent,      \* request construction: the model and the body handed to fetch, if built
    input,     \* parseJSONWithRepair: its text argument
    jpc,       \* parseJSONWithRepair: the position in its body
    repaired,  \* parseJSONWithRepair: what repairJSON(text) returned, if called
    parses,    \* parseJSONWithRepair: the texts handed to JSON.parse, in order
    parsed,    \* parseJSONWithRepair: the value returned, if any
    failure,   \* parseJSONWithRepair: the error thrown, if any
    pair,      \* two concurrent batch calls: the position of each
    route      \* the generate route handler: its position and what it has stored

callVars == <<op, count, pc, i, attempt, results, retval, thrown, caught, items,
              seen, answer, calls, inFlight, trace, upstream, latency>>
requestVars == <<args, sent>>
repairVars == <<input, jpc, repaired, parses, parsed, failure>>

vars == <<callVars, requestVars, repairVars, pair, route>>

(***************************************************************************)
(* Bounds of the model.                                                    *)
(***************************************************************************)
MaxCount == 2

(***************************************************************************)
(* Text.                                                                   *)
(***************************************************************************)
S_429 == <<"4", "2", "9">>
S_GeminiAPIError ==
    <<"G","e","m","i","n","i"," ","A","P","I"," ","e","r","r","o","r",":"," ">>
S_Dash == <<" ", "-", " ">>
S_GeminiError == <<"G","e","m","i","n","i"," ","e","r","r","o","r",":"," ">>
S_NoContent ==
    <<"N","o"," ","c","o","n","t","e","n","t"," ","i","n"," ",
      "r","e","s","p","o","n","s","e">>
S_MaxRetries ==
    <<"M","a","x"," ","r","e","t","r","i","e","s"," ",
      "e","x","c","e","e","d","e","d">>

\* String.prototype.includes
Includes(s, sub) ==
    \E k \in 1..(Len(s) - Len(sub) + 1) : SubSeq(s, k, k + Len(sub) - 1) = sub

DigitChar(d) ==
    CASE d = 0 -> "0" [] d = 1 -> "1" [] d = 2 -> "2" [] d = 3 -> "3"
      [] d = 4 -> "4" [] d = 5 -> "5" [] d = 6 -> "6" [] d = 7 -> "7"
      [] d = 8 -> "8" [] d = 9 -> "9"

\* a number interpolated into a template literal
RECURSIVE NumberToString(_)
NumberToString(n) ==
    IF n < 10 THEN <<DigitChar(n)>>
    ELSE NumberToString(n \div 10) \o <<DigitChar(n % 10)>>

\* Array.prototype.join('') over a sequence of texts
RECURSIVE Join(_)
Join(ss) == IF ss = <<>> THEN <<>> ELSE Head(ss) \o Join(Tail(ss))

\* the characters the regular expression class \w matches
WordChars ==
    {"a", "b", "c", "d", "e", "f", "g", "h", "i", "j", "k", "l", "m", "n",
     "o", "p", "q", "r", "s", "t", "u", "v", "w", "x", "y", "z", "A", "B",
     "C", "D", "E", "F", "G", "H", "I", "J", "K", "L", "M", "N", "O", "P",
     "Q", "R", "S", "T", "U", "V", "W", "X", "Y", "Z", "0", "1", "2", "3",
     "4", "5", "6", "7", "8", "9", "_"}

StartsWith(s, prefix) ==
    Len(s) >= Len(prefix) /\ SubSeq(s, 1, Len(prefix)) = prefix

Drop(s, n) == SubSeq(s, n + 1, Len(s))

Max(S) == CHOOSE x \in S : \A y \in S : y <= x

(***************************************************************************)
(* Errors: the constructor name and the message.                           *)
(***************************************************************************)
MkError(name, message) == [name |-> name, message |-> message]

NoError == MkError("", <<>>)

(***************************************************************************)
(* Options: an optional field, or a nullable value, is the empty sequence  *)
(* when absent and a one-element sequence when present.                    *)
(***************************************************************************)
None == <<>>
Some(v) == <<v>>

(***************************************************************************)
(* GeminiPart, GeminiResponse.                                             *)
(* candidates is "absent" (no candidates field), "empty" (candidates: []), *)
(* "noContent" (candidates[0] has no content), "noParts" (the content has  *)
(* no parts field) or "parts" (candidates[0].content.parts is the array    *)
(* parts, which may be empty).                                             *)
(***************************************************************************)
TextPart(t) == [text |-> Some(t), inlineData |-> None]
InlinePart(mime, data) ==
    [text |-> None, inlineData |-> Some([mimeType |-> mime, data |-> data])]
GeminiResponse(err, cands, parts) ==
    [error |-> err, candidates |-> cands, parts |-> parts]
NoResponse == GeminiResponse(None, "absent", <<>>)

\* response.candidates?.[0]?.content?.parts, as a condition: an array,
\* even an empty one, is truthy
HasParts(response) == response.candidates = "parts"

\* part.text as a condition: a non-empty string
TextTruthy(part) == part.text # None /\ part.text[1] # <<>>

\* part.inlineData as a condition: an object
InlineTruthy(part) == part.inlineData # None

\* Array.prototype.filter with the predicate part => part.text
RECURSIVE FilterText(_)
FilterText(ps) ==
    IF ps = <<>> THEN <<>>
    ELSE IF TextTruthy(Head(ps)) THEN <<Head(ps)>> \o FilterText(Tail(ps))
    ELSE FilterText(Tail(ps))

\* Array.prototype.find with the predicate part => part.inlineData: the
\* first such part, or None for undefined
RECURSIVE FindInline(_)
FindInline(ps) ==
    IF ps = <<>> THEN None
    ELSE IF InlineTruthy(Head(ps)) THEN Some(Head(ps))
    ELSE FindInline(Tail(ps))

\* the outcome of a call: it threw error, or it returned value
Threw(e) == [threw |-> TRUE, error |-> e, value |-> None]
Returned(v) == [threw |-> FALSE, error |-> NoError, value |-> v]

\* faulty variant: the content is looked at before the error object
extractTextFromResponse_ContentFirst(response) ==
    IF HasParts(response)
    THEN LET kept == FilterText(response.parts)
         IN  Returned(Join([k \in 1..Len(kept) |-> kept[k].text[1]]))
    ELSE IF response.error # None
    THEN Threw(MkError("Error", S_GeminiError \o response.error[1].message))
    ELSE Threw(MkError("Error", S_NoContent))

extractTextFromResponse(response) ==
    IF response.error # None
    THEN Threw(MkError("Error", S_GeminiError \o response.error[1].message))
    ELSE IF ~HasParts(response)
    THEN Threw(MkError("Error", S_NoContent))
    ELSE LET kept == FilterText(response.parts)
         IN  Returned(Join([k \in 1..Len(kept) |-> kept[k].text[1]]))

\* faulty variant: like extractTextFromResponse, a response without parts throws
extractImageFromResponse_Throws(response) ==
    IF response.error # None
    THEN Threw(MkError("Error", S_GeminiError \o response.error[1].message))
    ELSE IF ~HasParts(response)
    THEN Threw(MkError("Error", S_NoContent))
    ELSE LET imagePart == FindInline(response.parts)
         IN  IF imagePart = None
             THEN Returned(None)
             ELSE Returned(Some([base64 |-> imagePart[1].inlineData[1].data,
                                 mimeType |-> imagePart[1].inlineData[1].mimeType]))

\* faulty variant: the error object of the envelope is not looked at
extractImageFromResponse_IgnoresError(response) ==
    IF ~HasParts(response)
    THEN Returned(None)
    ELSE LET imagePart == FindInline(response.parts)
         IN  IF imagePart = None
             THEN Returned(None)
             ELSE Returned(Some([base64 |-> imagePart[1].inlineData[1].data,
                                 mimeType |-> imagePart[1].inlineData[1].mimeType]))

\* the returned value is None for null, Some(image) for an image
extractImageFromResponse(response) ==
    IF response.error # None
    THEN Threw(MkError("Error", S_GeminiError \o response.error[1].message))
    ELSE IF ~HasParts(response)
    THEN Returned(None)
    ELSE LET imagePart == FindInline(response.parts)
         IN  IF imagePart = None
             THEN Returned(None)
             ELSE Returned(Some([base64 |-> imagePart[1].inlineData[1].data,
                                 mimeType |-> imagePart[1].inlineData[1].mimeType]))

(***************************************************************************)
(* The upstream: what one fetch can answer.                                *)
(*   kind "reject"    fetch, or the read of the body, rejects with a       *)
(*                    TypeError whose message is text                      *)
(*   kind "response"  a response with this status; text is the body that   *)
(*                    response.text() yields; json is what response.json() *)
(*                    yields, or None when the body is not JSON            *)
(***************************************************************************)
T_ok == <<"o", "k">>
T_bad == <<"b", "a", "d">>
T_quota == <<"q", "4", "2", "9">>
T_fetchFailed == <<"f","e","t","c","h"," ","f","a","i","l","e","d">>
T_unexpected == <<"U","n","e","x","p","e","c","t","e","d">>
T_json == <<"{", "\"", "t", "a", "g", "s", "\"", ":", " ", "[", "\"", "a", "\"", "]", "}">>
DataA == <<"A">>
DataB == <<"B">>

Statuses == {200, 400, 429, 500, 503}
ErrorTexts == {T_bad, T_quota}

Envelopes ==
    { GeminiResponse(None, "parts", <<InlinePart("image/png", DataA)>>),
      GeminiResponse(None, "parts",
                     <<TextPart(T_ok), InlinePart("image/jpeg", DataB),
                       InlinePart("image/png", DataA)>>),
      GeminiResponse(None, "parts", <<TextPart(T_ok)>>),
      GeminiResponse(None, "parts", <<TextPart(T_json)>>),
      GeminiResponse(None, "parts", <<TextPart(T_ok), TextPart(T_bad)>>),
      GeminiResponse(None, "parts", <<>>),
      GeminiResponse(None, "absent", <<>>),
      GeminiResponse(None, "empty", <<>>),
      GeminiResponse(None, "noContent", <<>>),
      GeminiResponse(None, "noParts", <<>>),
      GeminiResponse(Some([code |-> 400, message |-> T_bad]), "absent", <<>>),
      GeminiResponse(Some([code |-> 429, message |-> T_quota]), "absent", <<>>),
      GeminiResponse(Some([code |-> 500, message |-> T_bad]), "parts",
                     <<TextPart(T_ok), InlinePart("image/png", DataA)>>) }

Reject(text) ==
    [kind |-> "reject", status |-> 0, text |-> text, json |-> None]
Response(status, text, json) ==
    [kind |-> "response", status |-> status, text |-> text, json |-> json]

FetchOutcomes ==
    { Reject(T_fetchFailed) }
    \cup { Response(st, t, None) : st \in Statuses \ {200}, t \in ErrorTexts }
    \cup { Response(200, <<>>, None) }
    \cup { Response(200, <<>>, Some(e)) : e \in Envelopes }

(***************************************************************************)
(* callGeminiAPI.                                                          *)
(***************************************************************************)
MAX_RETRIES == 3
RETRY_DELAYS == <<1000, 2000, 4000>>

\* RETRY_DELAYS[attempt], the array indexed from 0
RetryDelay(a) == RETRY_DELAYS[a + 1]

\* response.ok
ResponseOk(status) == status >= 200 /\ status <= 299

\* what one iteration of the retry loop decides
Retry(ms) ==
    [next |-> "retry", delay |-> ms, error |-> NoError, value |-> NoResponse]
Throw(e) ==
    [next |-> "throw", delay |-> 0, error |-> e, value |-> NoResponse]
Return(v) ==
    [next |-> "return", delay |-> 0, error |-> NoError, value |-> v]

\* faulty variant: the last attempt is retried like the others
RetryOnStatus_NoLastGuard(a, status) == status = 500 \/ status = 503

\* faulty variant: 429 is retried like 500 and 503
RetryOnStatus_With429(a, status) ==
    (status = 429 \/ status = 500 \/ status = 503) /\ a < MAX_RETRIES - 1

\* the guard of a retry on a 500/503 status
RetryOnStatus(a, status) ==
    (status = 500 \/ status = 503) /\ a < MAX_RETRIES - 1

\* faulty variant: the catch block retries whatever was thrown
RetryOnError_AnyError(a, e) == a < MAX_RETRIES - 1

\* the guard of a retry in the catch block
RetryOnError(a, e) == a < MAX_RETRIES - 1 /\ e.name = "TypeError"

\* faulty variant: the catch block always sleeps the first delay of the schedule
CatchBlock_FirstDelay(a, e) ==
    IF RetryOnError(a, e) THEN Retry(RetryDelay(0)) ELSE Throw(e)

\* the catch block of the retry loop
CatchBlock(a, e) == IF RetryOnError(a, e) THEN Retry(RetryDelay(a)) ELSE Throw(e)

\* the error built from a response that is not ok
RequestError(status, errorText) ==
    MkError("Error",
            S_GeminiAPIError \o NumberToString(status) \o S_Dash \o errorText)

\* the body of the retry loop for attempt a, given what fetch answered
callAttempt(a, o) ==
    IF o.kind = "reject"
    THEN CatchBlock(a, MkError("TypeError", o.text))
    ELSE IF ~ResponseOk(o.status)
    THEN IF RetryOnStatus(a, o.status)
         THEN Retry(RetryDelay(a))
         ELSE CatchBlock(a, RequestError(o.status, o.text))
    ELSE IF o.json = None
    THEN CatchBlock(a, MkError("SyntaxError", T_unexpected))
    ELSE Return(o.json[1])

(***************************************************************************)
(* JSON repair.  repairJSON rewrites the model's text with five regular    *)
(* expression replacements, parseJSONWithRepair parses the result and, if  *)
(* that fails, parses once more after one further replacement.  Each       *)
(* replacement is a left-to-right scan, as String.replace with a /g        *)
(* expression does it.  A parsed value is <<"num", text>>, <<"str", text>>,*)
(* <<"lit", name>>, <<"arr", values>> or <<"obj", <<key, value>> pairs>>.  *)
(***************************************************************************)
WS == {" ", "\n", "\t", "\r"}
Digits == {"0", "1", "2", "3", "4", "5", "6", "7", "8", "9"}
NumChars == Digits \cup {"."}
\* the grave accent (U+0060), which cannot be written inside a string here
Grave == "grave"
S_Fence == <<Grave, Grave, Grave>>
S_FenceJson == S_Fence \o <<"j", "s", "o", "n">>

\* length of the longest run of characters of a class starting at s[k]
RECURSIVE Run(_, _, _)
Run(s, k, class) ==
    IF k <= Len(s) /\ s[k] \in class THEN 1 + Run(s, k + 1, class) ELSE 0

\* position of the last character before s[k] that is not in the class, or 0
RECURSIVE LastOutside(_, _, _)
LastOutside(s, k, class) ==
    IF k <= 1 THEN 0
    ELSE IF s[k - 1] \in class THEN LastOutside(s, k - 1, class) ELSE k - 1

HasNewline(s, from, to) == \E j \in from..to : s[j] = "\n"
AfterLastNewline(s, from, to) == Max({j \in from..to : s[j] = "\n"}) + 1

\* text.trim()
trim(s) ==
    LET start == Run(s, 1, WS) + 1
    IN  IF start > Len(s) THEN <<>>
        ELSE SubSeq(s, start, LastOutside(s, Len(s) + 1, WS))

\* json.replace(/^<fence>\n?/, '')
StripOpeningFence(s, fence) ==
    IF ~StartsWith(s, fence) THEN s
    ELSE LET rest == Drop(s, Len(fence))
         IN  IF rest # <<>> /\ Head(rest) = "\n" THEN Tail(rest) ELSE rest

\* json.replace(/\n?<fence>$/, '')
StripClosingFence(s) ==
    IF Len(s) < 3 \/ SubSeq(s, Len(s) - 2, Len(s)) # S_Fence THEN s
    ELSE IF Len(s) > 3 /\ s[Len(s) - 3] = "\n" THEN SubSeq(s, 1, Len(s) - 4)
    ELSE SubSeq(s, 1, Len(s) - 3)

\* if (json.startsWith(<fence>json)) ... else if (json.startsWith(<fence>)) ...
StripFences(s) ==
    IF StartsWith(s, S_FenceJson)
    THEN StripClosingFence(StripOpeningFence(s, S_FenceJson))
    ELSE IF StartsWith(s, S_Fence)
    THEN StripClosingFence(StripOpeningFence(s, S_Fence))
    ELSE s

\* json.replace(/,(\s*[}\]])/g, '$1'), from s[k] on
RECURSIVE RemoveTrailingCommas(_, _)
RemoveTrailingCommas(s, k) ==
    IF k > Len(s) THEN <<>>
    ELSE LET close == k + 1 + Run(s, k + 1, WS)
         IN  IF s[k] = "," /\ close <= Len(s) /\ s[close] \in {"}", "]"}
             THEN SubSeq(s, k + 1, close) \o RemoveTrailingCommas(s, close + 1)
             ELSE <<s[k]>> \o RemoveTrailingCommas(s, k + 1)

\* json.replace(/(\d+)\s*\n\s*\{/g, '$1},\n    {'), from s[k] on
RECURSIVE SeparateItems(_, _)
SeparateItems(s, k) ==
    IF k > Len(s) THEN <<>>
    ELSE LET d == Run(s, k, Digits)
             open == k + d + Run(s, k + d, WS)
         IN  IF /\ d >= 1
                /\ open <= Len(s)
                /\ s[open] = "{"
                /\ HasNewline(s, k + d, open - 1)
             THEN SubSeq(s, k, k + d - 1)
                  \o <<"}", ",", "\n", " ", " ", " ", " ", "{">>
                  \o SeparateItems(s, open + 1)
             ELSE <<s[k]>> \o SeparateItems(s, k + 1)

\* json.replace(/(:\s*[\d.]+)\s*\n(\s*)<delimiter>/g, '$1 }$2<delimiter>'),
\* from s[k] on
RECURSIVE CloseBraces(_, _, _)
CloseBraces(s, k, delimiter) ==
    IF k > Len(s) THEN <<>>
    ELSE LET number == k + 1 + Run(s, k + 1, WS)
             n == Run(s, number, NumChars)
             space == number + n
             end == space + Run(s, space, WS)
         IN  IF /\ s[k] = ":"
                /\ n >= 1
                /\ end <= Len(s)
                /\ s[end] = delimiter
                /\ HasNewline(s, space, end - 1)
             THEN SubSeq(s, k, space - 1) \o <<" ", "}">>
                  \o SubSeq(s, AfterLastNewline(s, space, end - 1), end)
                  \o CloseBraces(s, end + 1, delimiter)
             ELSE <<s[k]>> \o CloseBraces(s, k + 1, delimiter)

repairJSON(text) ==
    LET fenced == StripFences(trim(text))
        commas == RemoveTrailingCommas(fenced, 1)
        separated == SeparateItems(commas, 1)
    IN  CloseBraces(CloseBraces(separated, 1, ","), 1, "]")

S_Weight == <<"\"", "w", "e", "i", "g", "h", "t", "\"", ":">>

\* json.replace(/("weight":\s*[\d.]+)(\s*)(,|\])/g, (match, weight, space,
\* delimiter) => ...), from s[k] on
RECURSIVE CloseWeights(_, _)
CloseWeights(s, k) ==
    IF k > Len(s) THEN <<>>
    ELSE LET number == k + Len(S_Weight) + Run(s, k + Len(S_Weight), WS)
             n == Run(s, number, NumChars)
             space == number + n
             end == space + Run(s, space, WS)
         IN  IF /\ StartsWith(Drop(s, k - 1), S_Weight)
                /\ n >= 1
                /\ end <= Len(s)
                /\ s[end] \in {",", "]"}
             THEN (IF Includes(SubSeq(s, k, end), <<"}">>)
                   THEN SubSeq(s, k, end)
                   ELSE SubSeq(s, k, space - 1) \o <<" ", "}">>
                        \o SubSeq(s, space, end))
                  \o CloseWeights(s, end + 1)
             ELSE <<s[k]>> \o CloseWeights(s, k + 1)

(***************************************************************************)
(* JSON.parse: the JSON grammar by recursive descent.  A parse step        *)
(* answers [ok, value, next], next being the position after the value.     *)
(***************************************************************************)
NoParse == [ok |-> FALSE, value |-> <<>>, next |-> 0]
Ok(v, next) == [ok |-> TRUE, value |-> v, next |-> next]
SkipWS(s, k) == k + Run(s, k, WS)
At(s, k, ch) == k <= Len(s) /\ s[k] = ch

Unescaped(ch) ==
    CASE ch = "n" -> "\n" [] ch = "t" -> "\t" [] ch = "r" -> "\r"
      [] OTHER -> ch

\* the characters of a string from s[k] on, the opening quote being s[k - 1]
RECURSIVE ParseString(_, _, _)
ParseString(s, k, acc) ==
    IF k > Len(s) \/ s[k] \in {"\n", "\t", "\r"} THEN NoParse
    ELSE IF s[k] = "\"" THEN Ok(<<"str", acc>>, k + 1)
    ELSE IF s[k] = "\\"
    THEN IF k < Len(s) /\ s[k + 1] \in {"\"", "\\", "/", "n", "t", "r"}
         THEN ParseString(s, k + 2, Append(acc, Unescaped(s[k + 1])))
         ELSE NoParse
    ELSE ParseString(s, k + 1, Append(acc, s[k]))

\* -? (0 | [1-9] [0-9]*) (. [0-9]+)? ([eE] [+-]? [0-9]+)?
ParseNumber(s, k) ==
    LET int == IF At(s, k, "-") THEN k + 1 ELSE k
        d == IF At(s, int, "0") THEN 1 ELSE Run(s, int, Digits)
        frac == int + d
        f == IF At(s, frac, ".") THEN Run(s, frac + 1, Digits) ELSE 0
        exp == IF At(s, frac, ".") THEN frac + 1 + f ELSE frac
        sign == IF At(s, exp + 1, "+") \/ At(s, exp + 1, "-") THEN 1 ELSE 0
        e == IF At(s, exp, "e") \/ At(s, exp, "E")
             THEN Run(s, exp + 1 + sign, Digits) ELSE 0
        end == IF At(s, exp, "e") \/ At(s, exp, "E") THEN exp + 1 + sign + e ELSE exp
    IN  IF \/ d = 0
           \/ At(s, frac, ".") /\ f = 0
           \/ (At(s, exp, "e") \/ At(s, exp, "E")) /\ e = 0
        THEN NoParse
        ELSE Ok(<<"num", SubSeq(s, k, end - 1)>>, end)

ParseLiteral(s, k) ==
    LET word == SubSeq(s, k, k + Run(s, k, WordChars) - 1)
    IN  IF StartsWith(word, <<"t", "r", "u", "e">>) THEN Ok(<<"lit", "true">>, k + 4)
        ELSE IF StartsWith(word, <<"f", "a", "l", "s", "e">>)
        THEN Ok(<<"lit", "false">>, k + 5)
        ELSE IF StartsWith(word, <<"n", "u", "l", "l">>) THEN Ok(<<"lit", "null">>, k + 4)
        ELSE NoParse

\* a repeated key keeps its place and takes the later value
PutMember(members, key, value) ==
    IF \E j \in DOMAIN members : members[j][1] = key
    THEN [j \in DOMAIN members |->
             IF members[j][1] = key THEN <<key, value>> ELSE members[j]]
    ELSE Append(members, <<key, value>>)

RECURSIVE ParseValue(_, _)
RECURSIVE ParseMembers(_, _, _)
RECURSIVE ParseElements(_, _, _)

\* the members of an object from s[k] on, s[k - 1] being "{" or ","
ParseMembers(s, k, acc) ==
    LET q == SkipWS(s, k)
        key == IF At(s, q, "\"") THEN ParseString(s, q + 1, <<>>) ELSE NoParse
        colon == SkipWS(s, key.next)
        v == ParseValue(s, colon + 1)
        end == SkipWS(s, v.next)
        members == PutMember(acc, key.value[2], v.value)
    IN  IF ~key.ok \/ ~At(s, colon, ":") \/ ~v.ok THEN NoParse
        ELSE IF At(s, end, ",") THEN ParseMembers(s, end + 1, members)
        ELSE IF At(s, end, "}") THEN Ok(<<"obj", members>>, end + 1)
        ELSE NoParse

\* the elements of an array from s[k] on, s[k - 1] being "[" or ","
ParseElements(s, k, acc) ==
    LET v == ParseValue(s, k)
        end == SkipWS(s, v.next)
    IN  IF ~v.ok THEN NoParse
        ELSE IF At(s, end, ",") THEN ParseElements(s, end + 1, Append(acc, v.value))
        ELSE IF At(s, end, "]") THEN Ok(<<"arr", Append(acc, v.value)>>, end + 1)
        ELSE NoParse

ParseValue(s, k) ==
    LET q == SkipWS(s, k)
        inner == SkipWS(s, q + 1)
    IN  IF q > Len(s) THEN NoParse
        ELSE IF s[q] = "{"
        THEN IF At(s, inner, "}") THEN Ok(<<"obj", <<>>>>, inner + 1)
             ELSE ParseMembers(s, q + 1, <<>>)
        ELSE IF s[q] = "["
        THEN IF At(s, inner, "]") THEN Ok(<<"arr", <<>>>>, inner + 1)
             ELSE ParseElements(s, q + 1, <<>>)
        ELSE IF s[q] = "\"" THEN ParseString(s, q + 1, <<>>)
        ELSE IF s[q] \in Digits \cup {"-"} THEN ParseNumber(s, q)
        ELSE ParseLiteral(s, q)

SyntaxError == MkError("SyntaxError", <<>>)

JSON_parse(s) ==
    LET v == ParseValue(s, 1)
    IN  IF v.ok /\ SkipWS(s, v.next) > Len(s) THEN Returned(v.value)
        ELSE Threw(SyntaxError)

\* try { return JSON.parse(repairJSON(text)) } catch { ... return JSON.parse(json) }
parseJSONWithRepair(text) ==
    LET first == JSON_parse(repairJSON(text))
    IN  IF ~first.threw THEN first
        ELSE JSON_parse(CloseWeights(repairJSON(text), 1))

(***************************************************************************)
(* The exported operations.                                                *)
(***************************************************************************)
BatchOps == {"generateDesigns", "generateTextileDesigns"}
ImageOps == {"editImage", "generateWithReference"}
TextOps == {"generateInspiration"}
JsonOps == {"annotateImage"}
Ops == BatchOps \cup ImageOps \cup TextOps \cup JsonOps

PACING_MS == 7000
COOLDOWN_MS == 60000

\* faulty variant: only the status of a request error counts as a rate limit
IsRateLimited_StatusOnly(e) == Includes(e.message, S_GeminiAPIError \o S_429)

\* the rate-limit test of the batch loop's catch block
IsRateLimited(e) == Includes(e.message, S_429)

\* faulty variant: the pacing starts one iteration late
NeedsPacing_Late(idx) == idx > 1

\* faulty variant: the pacing is shared, a batch also sleeps when any batch
\* of the process has issued a request
NeedsPacing_Shared(idx) ==
    idx > 0 \/ \E b \in DOMAIN pair : pair[b].fetched > 0

\* the pacing test at the head of the batch loop's body
NeedsPacing(idx) == idx > 0

FetchEvent(idx, a) == [ev |-> "fetch", i |-> idx, attempt |-> a, ms |-> 0]
SleepEvent(why, idx, a, ms) == [ev |-> why, i |-> idx, attempt |-> a, ms |-> ms]

\* the parts of the model a specification does not run
NoArgs == [fn |-> "none", images |-> <<>>, aspectRatio |-> None, index |-> 0]
RequestIdle == args = NoArgs /\ sent = None
NoInput == [body |-> <<>>, site |-> 0, fence |-> None, padded |-> FALSE]
NoPair == <<>>
NoRoute ==
    [pc |-> "idle", requested |-> 0, k |-> 0, uploaded |-> {}, assets |-> {},
     rows |-> {}, outputs |-> <<>>, attempted |-> {}, response |-> None]
SideIdle == pair = NoPair /\ route = NoRoute
RepairIdle ==
    /\ input = NoInput
    /\ jpc = "idle"
    /\ repaired = None
    /\ parses = <<>>
    /\ parsed = None
    /\ failure = None
CallIdle ==
    /\ op = "none"
    /\ count = 0
    /\ pc = "idle"
    /\ i = 0
    /\ attempt = 0
    /\ results = <<>>
    /\ retval = None
    /\ thrown = None
    /\ caught = None
    /\ items = <<>>
    /\ seen = <<>>
    /\ answer = None
    /\ calls = 0
    /\ inFlight = 0
    /\ trace = <<>>
    /\ upstream = {}
    /\ latency = 0

Init ==
    /\ RequestIdle
    /\ RepairIdle
    /\ SideIdle
    /\ upstream = FetchOutcomes
    /\ latency = 0
    /\ op \in Ops
    /\ count \in IF op \in BatchOps THEN 0..MaxCount ELSE {1}
    /\ pc = "init"
    /\ i = 0
    /\ attempt = 0
    /\ results = <<>>
    /\ retval = None
    /\ thrown = None
    /\ caught = None
    /\ items = <<>>
    /\ seen = <<>>
    /\ answer = None
    /\ calls = 0
    /\ inFlight = 0
    /\ trace = <<>>

\* the variables a resumption has written so far, on their way to the next
\* await: the retry loop's counter, the statuses seen, the requests in
\* flight, the trace, the answer of the latest fetch and the caught error
Now ==
    [attempt |-> attempt, seen |-> seen, inFlight |-> inFlight, trace |-> trace,
     answer |-> answer, caught |-> caught]

Logged(c, event) == [c EXCEPT !.trace = Append(@, event)]

Keep(c) ==
    /\ attempt' = c.attempt
    /\ seen' = c.seen
    /\ inFlight' = c.inFlight
    /\ trace' = c.trace
    /\ answer' = c.answer
    /\ caught' = c.caught
    /\ calls' = calls

\* faulty variant: the request of the next index is issued along with this one
EnterCall_Speculative(idx, c) ==
    /\ pc' = "fetch"
    /\ attempt' = 0
    /\ seen' = <<>>
    /\ answer' = None
    /\ caught' = None
    /\ calls' = calls + 1
    /\ inFlight' = c.inFlight + 2
    /\ trace' = c.trace \o <<FetchEvent(idx, 0), FetchEvent(idx + 1, 0)>>

\* the operation calls callGeminiAPI for index idx: the retry loop starts
\* and its first fetch is issued
EnterCall(idx, c) ==
    /\ pc' = "fetch"
    /\ attempt' = 0
    /\ seen' = <<>>
    /\ answer' = None
    /\ caught' = None
    /\ calls' = calls + 1
    /\ inFlight' = c.inFlight + 1
    /\ trace' = Append(c.trace, FetchEvent(idx, 0))

\* the operation returns v
Finish(v, c) ==
    /\ pc' = "done"
    /\ retval' = Some(v)
    /\ thrown' = None
    /\ Keep(c)

\* the operation throws e
Fail(e, c) ==
    /\ pc' = "done"
    /\ retval' = None
    /\ thrown' = Some(e)
    /\ Keep(c)

\* the batch loop from its test with i = idx: the head of the iteration up
\* to its first await, or the return of the results
LoopFrom(idx, res, c) ==
    /\ i' = idx
    /\ results' = res
    /\ IF idx < count
       THEN /\ UNCHANGED <<retval, thrown>>
            /\ IF NeedsPacing(idx)
               THEN /\ pc' = "pace"
                    /\ Keep(Logged(c, SleepEvent("pace", idx, 0, PACING_MS)))
               ELSE EnterCall(idx, c)
       ELSE Finish(res, c)

\* faulty variant: no try/catch around the iteration, the first failure ends the batch
BatchAfterCall_Abort(r, c) ==
    LET x == IF r.threw THEN r ELSE extractImageFromResponse(r.value)
    IN  IF ~x.threw
        THEN IF x.value # None
             THEN /\ items' = Append(items, "image")
                  /\ LoopFrom(i + 1, Append(results, x.value[1]), c)
             ELSE /\ items' = Append(items, "none")
                  /\ LoopFrom(i + 1, results, c)
        ELSE /\ items' = Append(items, "failed")
             /\ Fail(x.error, c)
             /\ UNCHANGED <<i, results>>

\* faulty variant: the extraction is outside the try block
BatchAfterCall_ExtractOutside(r, c) ==
    IF r.threw
    THEN /\ items' = Append(items, "failed")
         /\ IF IsRateLimited(r.error)
            THEN /\ pc' = "cooldown"
                 /\ Keep(Logged([c EXCEPT !.caught = Some(r.error)],
                                SleepEvent("cooldown", i, 0, COOLDOWN_MS)))
                 /\ UNCHANGED <<i, results, retval, thrown>>
            ELSE LoopFrom(i + 1, results, [c EXCEPT !.caught = Some(r.error)])
    ELSE LET x == extractImageFromResponse(r.value)
         IN  IF x.threw
             THEN /\ items' = Append(items, "failed")
                  /\ Fail(x.error, c)
                  /\ UNCHANGED <<i, results>>
             ELSE IF x.value # None
             THEN /\ items' = Append(items, "image")
                  /\ LoopFrom(i + 1, Append(results, x.value[1]), c)
             ELSE /\ items' = Append(items, "none")
                  /\ LoopFrom(i + 1, results, c)

\* faulty variant: no cooldown after the last item
BatchAfterCall_NoCooldownOnLast(r, c) ==
    LET x == IF r.threw THEN r ELSE extractImageFromResponse(r.value)
    IN  IF ~x.threw
        THEN IF x.value # None
             THEN /\ items' = Append(items, "image")
                  /\ LoopFrom(i + 1, Append(results, x.value[1]), c)
             ELSE /\ items' = Append(items, "none")
                  /\ LoopFrom(i + 1, results, c)
        ELSE /\ items' = Append(items, "failed")
             /\ IF IsRateLimited(x.error) /\ i < count - 1
                THEN /\ pc' = "cooldown"
                     /\ Keep(Logged([c EXCEPT !.caught = Some(x.error)],
                                    SleepEvent("cooldown", i, 0, COOLDOWN_MS)))
                     /\ UNCHANGED <<i, results, retval, thrown>>
                ELSE LoopFrom(i + 1, results, [c EXCEPT !.caught = Some(x.error)])

\* the rest of one iteration of the batch loop once callGeminiAPI has
\* returned or thrown: extraction, push, and the catch block
BatchAfterCall(r, c) ==
    LET x == IF r.threw THEN r ELSE extractImageFromResponse(r.value)
    IN  IF ~x.threw
        THEN IF x.value # None
             THEN /\ items' = Append(items, "image")
                  /\ LoopFrom(i + 1, Append(results, x.value[1]), c)
             ELSE /\ items' = Append(items, "none")
                  /\ LoopFrom(i + 1, results, c)
        ELSE /\ items' = Append(items, "failed")
             /\ IF IsRateLimited(x.error)
                THEN /\ pc' = "cooldown"
                     /\ Keep(Logged([c EXCEPT !.caught = Some(x.error)],
                                    SleepEvent("cooldown", i, 0, COOLDOWN_MS)))
                     /\ UNCHANGED <<i, results, retval, thrown>>
                ELSE LoopFrom(i + 1, results, [c EXCEPT !.caught = Some(x.error)])

\* the text of the answer, parsed: return parseJSONWithRepair(text)
ParsedText(text) == IF text.threw THEN text ELSE parseJSONWithRepair(text.value)

\* what the function body after the call evaluates to
SingleResult(r) ==
    IF r.threw THEN r
    ELSE IF op \in TextOps THEN extractTextFromResponse(r.value)
    ELSE IF op \in JsonOps THEN ParsedText(extractTextFromResponse(r.value))
    ELSE extractImageFromResponse(r.value)

\* faulty variant: a failure is caught and answered with null
Settle_Swallow(x, c) == IF x.threw THEN Finish(None, c) ELSE Finish(x.value, c)

\* the operation throws what was thrown or returns what was computed
Settle(x, c) == IF x.threw THEN Fail(x.error, c) ELSE Finish(x.value, c)

\* the rest of a single-call operation once callGeminiAPI has returned or
\* thrown: nothing is caught
SingleAfterCall(r, c) ==
    /\ Settle(SingleResult(r), c)
    /\ UNCHANGED <<i, results, items>>

AfterCall(r, c) ==
    IF op \in BatchOps THEN BatchAfterCall(r, c) ELSE SingleAfterCall(r, c)

(***************************************************************************)
(* Actions: one per resumption of the operation.                           *)
(***************************************************************************)
\* the operation is called and runs to its first await
Begin ==
    /\ pc = "init"
    /\ UNCHANGED <<requestVars, repairVars, pair, route, upstream, latency>>
    /\ UNCHANGED <<op, count, items>>
    /\ IF op \in BatchOps
       THEN LoopFrom(0, <<>>, Now)
       ELSE /\ EnterCall(0, Now)
            /\ UNCHANGED <<i, results, retval, thrown>>

\* sleep(7000) resolves: the batch loop calls callGeminiAPI
PaceDone ==
    /\ pc = "pace"
    /\ EnterCall(i, Now)
    /\ UNCHANGED <<requestVars, repairVars, pair, route, upstream, latency>>
    /\ UNCHANGED <<op, count, i, results, retval, thrown, items>>

\* fetch settles: the rest of this iteration of the retry loop and, if the
\* call ends here, its caller up to the next await
FetchResponds ==
    /\ pc = "fetch"
    /\ UNCHANGED <<requestVars, repairVars, pair, route, upstream, latency>>
    /\ UNCHANGED <<op, count>>
    /\ \E o \in upstream :
         LET r == callAttempt(attempt, o)
             c == [Now EXCEPT !.seen = Append(@, o.status),
                              !.answer = Some(o),
                              !.inFlight = @ - 1]
         IN  CASE r.next = "retry" ->
                    /\ pc' = "backoff"
                    /\ Keep(Logged(c, SleepEvent("backoff", i, attempt, r.delay)))
                    /\ UNCHANGED <<i, results, retval, thrown, items>>
               [] r.next = "throw" -> AfterCall(Threw(r.error), c)
               [] r.next = "return" -> AfterCall(Returned(r.value), c)

\* faulty variant: the retry loop does not count its attempts
BackoffDone_NoIncrement ==
    /\ pc = "backoff"
    /\ UNCHANGED <<requestVars, repairVars, pair, route, upstream, latency>>
    /\ UNCHANGED <<op, count>>
    /\ pc' = "fetch"
    /\ Keep([Logged(Now, FetchEvent(i, attempt)) EXCEPT !.inFlight = @ + 1])
    /\ UNCHANGED <<i, results, retval, thrown, items>>

\* sleep(RETRY_DELAYS[attempt]) resolves: continue, attempt++, the loop
\* test, and the next fetch or the throw that follows the loop
BackoffDone ==
    /\ pc = "backoff"
    /\ UNCHANGED <<requestVars, repairVars, pair, route, upstream, latency>>
    /\ UNCHANGED <<op, count>>
    /\ IF attempt + 1 < MAX_RETRIES
       THEN /\ pc' = "fetch"
            /\ Keep([Logged(Now, FetchEvent(i, attempt + 1))
                       EXCEPT !.attempt = @ + 1, !.inFlight = @ + 1])
            /\ UNCHANGED <<i, results, retval, thrown, items>>
       ELSE AfterCall(Threw(MkError("Error", S_MaxRetries)),
                      [Now EXCEPT !.attempt = @ + 1])

\* sleep(60000) resolves: the catch block ends, i++
CooldownDone ==
    /\ pc = "cooldown"
    /\ UNCHANGED <<requestVars, repairVars, pair, route, upstream, latency>>
    /\ UNCHANGED <<op, count, items>>
    /\ LoopFrom(i + 1, results, Now)

Next == Begin \/ PaceDone \/ FetchResponds \/ BackoffDone \/ CooldownDone

Spec == Init /\ [][Next]_vars

(***************************************************************************)
(* Observations on the trace.                                              *)
(***************************************************************************)
FetchPositions == {k \in DOMAIN trace : trace[k].ev = "fetch"}

\* the batch index of the latest callGeminiAPI
LatestIndex == trace[Max(FetchPositions)].i

\* the latest callGeminiAPI has returned or thrown
CallEnded == calls > 0 /\ pc \notin {"fetch", "backoff"}

\* the fetches and the backoff sleeps of the latest callGeminiAPI, in order
CallTrace ==
    LET idx == LatestIndex
        Mine(e) == e.i = idx /\ e.ev \in {"fetch", "backoff"}
    IN  SelectSeq(trace, Mine)

CallFetches ==
    LET ct == CallTrace
    IN  Cardinality({k \in DOMAIN ct : ct[k].ev = "fetch"})

CallBackoffs ==
    LET IsBackoff(e) == e.ev = "backoff"
        bs == SelectSeq(CallTrace, IsBackoff)
    IN  [k \in DOMAIN bs |-> bs[k].ms]

\* the error the latest callGeminiAPI or the extraction after it ended
\* with, as its caller saw it
CallError == IF op \in BatchOps THEN caught ELSE thrown

Transient(status) == status \in {0, 500, 503}

(***************************************************************************)
(* C1 (as stated): on three consecutive HTTP 503 responses callGeminiAPI   *)
(* makes exactly 3 fetches, sleeps 1000ms, 2000ms and 4000ms, and fails.   *)
(***************************************************************************)
C1_AsStated ==
    (CallEnded /\ seen = <<503, 503, 503>>) =>
        /\ CallFetches = 3
        /\ CallBackoffs = <<1000, 2000, 4000>>
        /\ CallError # None

(***************************************************************************)
(* C1 (amended): on three consecutive HTTP 503 responses callGeminiAPI     *)
(* makes exactly 3 fetches, sleeps 1000ms after the first and 2000ms after *)
(* the second and nothing after the third (the 4000ms entry of the         *)
(* schedule is never slept), and fails.                                    *)
(***************************************************************************)
C1_ThreeAttemptsTwoBackoffs ==
    (CallEnded /\ seen = <<503, 503, 503>>) =>
        /\ CallFetches = 3
        /\ CallBackoffs = <<1000, 2000>>
        /\ CallTrace = <<FetchEvent(LatestIndex, 0),
                         SleepEvent("backoff", LatestIndex, 0, 1000),
                         FetchEvent(LatestIndex, 1),
                         SleepEvent("backoff", LatestIndex, 1, 2000),
                         FetchEvent(LatestIndex, 2)>>
        /\ CallError # None

C1_Witness == CallEnded /\ seen = <<503, 503, 503>> /\ op = "editImage"

(***************************************************************************)
(* C2: whenever callGeminiAPI uses up all 3 attempts on transient failures *)
(* (500, 503 or a rejected fetch on every attempt) it fails with the error *)
(* 'Max retries exceeded'.                                                 *)
(***************************************************************************)
C2_RetriesExhausted ==
    (CallEnded /\ Len(seen) = MAX_RETRIES
               /\ \A k \in DOMAIN seen : Transient(seen[k])) =>
        CallError = Some(MkError("Error", S_MaxRetries))

(***************************************************************************)
(* C3: when the first response has a status that is not ok and is neither  *)
(* 500 nor 503, callGeminiAPI fails on that attempt with the error         *)
(* 'Gemini API error: <status> - <body text>': one fetch, no backoff.      *)
(***************************************************************************)
C3_NonRetryableStatus ==
    (CallEnded /\ seen # <<>> /\ ~ResponseOk(seen[1]) /\ ~Transient(seen[1])) =>
        /\ seen = <<seen[1]>>
        /\ CallFetches = 1
        /\ CallBackoffs = <<>>
        /\ answer # None
        /\ CallError =
             Some(MkError("Error",
                          S_GeminiAPIError \o NumberToString(seen[1])
                              \o S_Dash \o answer[1].text))

C3_Witness ==
    /\ CallEnded
    /\ seen = <<429>>
    /\ answer # None /\ answer[1].text = T_bad
    /\ op = "generateDesigns"

(***************************************************************************)
(* C4: a rejected fetch with attempts remaining is followed by the same    *)
(* backoff as a 500/503 at that attempt (1000ms after attempt 0, 2000ms    *)
(* after attempt 1) and then by the next fetch; rejections and 500/503     *)
(* share one attempt counter, so a call makes at most 3 fetches.           *)
(***************************************************************************)
C4_NetworkFailureBackoff ==
    calls > 0 =>
        LET ct == CallTrace
            idx == LatestIndex
        IN  /\ CallFetches <= 3
            /\ Len(seen) <= 3
            /\ \A k \in DOMAIN seen :
                 (Transient(seen[k]) /\ k < 3) =>
                     /\ Len(ct) >= 2 * k
                     /\ ct[2 * k] =
                          SleepEvent("backoff", idx, k - 1,
                                     IF k = 1 THEN 1000 ELSE 2000)
                     /\ (pc # "backoff" \/ k < Len(seen)) =>
                          /\ Len(ct) >= 2 * k + 1
                          /\ ct[2 * k + 1] = FetchEvent(idx, k)

C4_Witness ==
    /\ CallEnded
    /\ seen = <<0, 503, 0>>
    /\ CallFetches = 3
    /\ CallBackoffs = <<1000, 2000>>

(***************************************************************************)
(* Observations on the batch.                                              *)
(***************************************************************************)
RECURSIVE SumMs(_)
SumMs(events) ==
    IF events = <<>> THEN 0 ELSE Head(events).ms + SumMs(Tail(events))

Slept(why) ==
    LET Is(e) == e.ev = why
    IN  SumMs(SelectSeq(trace, Is))

TotalSlept == SumMs(trace)

ImagesIn(its) == Cardinality({k \in DOMAIN its : its[k] = "image"})

\* what the answer of a fetch means for the caller, read off the answer
\* itself: the call or the extraction fails
AnswerFails(o) ==
    \/ o.kind = "reject"
    \/ ~ResponseOk(o.status)
    \/ o.json = None
    \/ o.json[1].error # None

\* an envelope without an error object in which no part carries inline data
NoInlineData(env) ==
    /\ env.error = None
    /\ \/ env.candidates # "parts"
       \/ \A k \in DOMAIN env.parts : env.parts[k].inlineData = None

\* the latest answer is a parsed envelope
Envelope == answer[1].json[1]
GotEnvelope ==
    /\ CallEnded
    /\ answer # None
    /\ answer[1].kind = "response"
    /\ ResponseOk(answer[1].status)
    /\ answer[1].json # None

(***************************************************************************)
(* C5: for every count >= 1, generateDesigns returns a list of 0..count    *)
(* elements and has called callGeminiAPI once per index 0..count-1,        *)
(* whatever the outcome of each item: no index is skipped after a failure. *)
(***************************************************************************)
C5_AllIndicesAttempted ==
    (op = "generateDesigns" /\ count >= 1) =>
        /\ calls <= count
        /\ pc = "done" =>
             /\ retval # None
             /\ Len(retval[1]) \in 0..count
             /\ calls = count
             /\ Len(items) = count
             /\ \A idx \in 0..(count - 1) :
                  Cardinality({k \in DOMAIN trace :
                                 trace[k] = FetchEvent(idx, 0)}) = 1

C5_Witness ==
    /\ op = "generateDesigns"
    /\ pc = "done"
    /\ count = 2
    /\ items = <<"failed", "image">>
    /\ calls = 2

(***************************************************************************)
(* C6: generateDesigns and generateTextileDesigns never throw: an error of *)
(* callGeminiAPI or of the image extraction for an index is caught, and    *)
(* the batch returns the images of the indices that succeeded.             *)
(***************************************************************************)
C6_BatchNeverFails ==
    op \in BatchOps =>
        /\ thrown = None
        /\ Len(results) = ImagesIn(items)
        /\ pc = "done" => retval = Some(results)
        /\ (CallEnded /\ answer # None /\ AnswerFails(answer[1])) =>
               /\ items[Len(items)] = "failed"
               /\ caught # None
        /\ (pc = "done" /\ count = 2 /\ items[2] = "failed"
                        /\ items[1] = "image") => Len(retval[1]) = 1

C6_Witness ==
    /\ op = "generateTextileDesigns"
    /\ pc = "done"
    /\ count = 2
    /\ items = <<"image", "failed">>
    /\ retval # None /\ Len(retval[1]) = 1
    /\ GotEnvelope /\ Envelope.error # None

(***************************************************************************)
(* C7: in a batch a 7000ms pacing sleep precedes the call of every index   *)
(* but index 0, whether or not the previous item failed; a finished batch  *)
(* with count > 1 has slept (count - 1) * 7000ms plus its backoff and      *)
(* cooldown sleeps.                                                        *)
(***************************************************************************)
C7_Pacing ==
    op \in BatchOps =>
        /\ \A k \in DOMAIN trace :
             /\ (trace[k].ev = "fetch" /\ trace[k].attempt = 0 /\ trace[k].i > 0) =>
                    /\ k > 1
                    /\ trace[k - 1] = SleepEvent("pace", trace[k].i, 0, 7000)
             /\ (trace[k].ev = "fetch" /\ trace[k].i = 0 /\ trace[k].attempt = 0) =>
                    k = 1
             /\ trace[k].ev = "pace" => trace[k].i > 0
        /\ (pc = "done" /\ count > 1) =>
             /\ Slept("pace") = (count - 1) * 7000
             /\ TotalSlept = (count - 1) * 7000 + Slept("backoff") + Slept("cooldown")
             /\ TotalSlept >= (count - 1) * 7000

C7_Witness ==
    /\ op = "generateDesigns"
    /\ pc = "done"
    /\ count = 2
    /\ items = <<"failed", "none">>
    /\ Slept("cooldown") = 0
    /\ Slept("backoff") = 3000
    /\ TotalSlept = 10000

(***************************************************************************)
(* C8: when the item of index i fails with an error whose message contains *)
(* '429' and i is not the last index, the batch sleeps 60000ms and then    *)
(* the 7000ms pacing sleep before it issues the request of index i + 1,    *)
(* and index i is not requested again.                                     *)
(***************************************************************************)
C8_Cooldown ==
    op \in BatchOps =>
        /\ (caught # None /\ Includes(caught[1].message, S_429)) =>
               \E k \in DOMAIN trace :
                   trace[k] = SleepEvent("cooldown", Len(items) - 1, 0, 60000)
        /\ \A k \in DOMAIN trace :
             (trace[k].ev = "cooldown" /\ trace[k].i < count - 1) =>
                 /\ trace[k].ms = 60000
                 /\ k < Len(trace) =>
                        trace[k + 1] = SleepEvent("pace", trace[k].i + 1, 0, 7000)
                 /\ k + 1 < Len(trace) =>
                        trace[k + 2] = FetchEvent(trace[k].i + 1, 0)
                 /\ pc = "done" => k + 1 < Len(trace)
                 /\ \A j \in DOMAIN trace :
                        (j > k /\ trace[j].ev = "fetch") => trace[j].i > trace[k].i

C8_Witness ==
    /\ op = "generateDesigns"
    /\ count = 2
    /\ pc = "fetch"
    /\ Len(trace) >= 4
    /\ SubSeq(trace, Len(trace) - 3, Len(trace)) =
         <<FetchEvent(0, 0), SleepEvent("cooldown", 0, 0, 60000),
           SleepEvent("pace", 1, 0, 7000), FetchEvent(1, 0)>>

(***************************************************************************)
(* C9: within one batch the requests are issued in increasing index order  *)
(* and never overlap: at most one fetch is in flight, and the first fetch  *)
(* of an index is issued only once every lower index has ended, retries    *)
(* included.                                                               *)
(***************************************************************************)
C9_Sequential ==
    op \in BatchOps =>
        /\ inFlight <= 1
        /\ inFlight = (IF pc = "fetch" THEN 1 ELSE 0)
        /\ pc \in {"fetch", "backoff"} =>
             /\ LatestIndex = Len(items)
             /\ LatestIndex = i
        /\ \A j, k \in FetchPositions :
             j < k =>
                 \/ trace[j].i < trace[k].i
                 \/ trace[j].i = trace[k].i /\ trace[j].attempt < trace[k].attempt
        /\ \A k \in FetchPositions :
             /\ trace[k].i < count
             /\ trace[k].attempt > 0 =>
                    /\ k > 2
                    /\ trace[k - 1].ev = "backoff"
                    /\ trace[k - 2] = FetchEvent(trace[k].i, trace[k].attempt - 1)

C9_Witness ==
    /\ op = "generateDesigns"
    /\ count = 2
    /\ pc = "done"
    /\ Cardinality(FetchPositions) = 6
    /\ items = <<"image", "image">>

(***************************************************************************)
(* C10 (as stated): for an envelope without an error object in which no    *)
(* part carries inline data, extractImageFromResponse returns null, and a  *)
(* batch then adds nothing to its results and sleeps no cooldown; on an    *)
(* envelope with no content parts extractTextFromResponse throws           *)
(* 'No content in response'.                                               *)
(***************************************************************************)
NullImageHandled ==
    (GotEnvelope /\ NoInlineData(Envelope)) =>
        /\ op \in ImageOps => (retval = Some(None) /\ thrown = None)
        /\ op \in BatchOps =>
             /\ thrown = None
             /\ caught = None
             /\ items[Len(items)] = "none"
             /\ Len(results) = ImagesIn(items)
             /\ pc # "cooldown"
             /\ \A k \in DOMAIN trace :
                    ~(trace[k].ev = "cooldown" /\ trace[k].i = Len(items) - 1)

C10_WitnessText ==
    /\ op = "generateInspiration"
    /\ GotEnvelope
    /\ Envelope = GeminiResponse(None, "noParts", <<>>)
    /\ thrown = Some(MkError("Error", S_NoContent))

(***************************************************************************)
(* C11: extractTextFromResponse throws when the parts of the envelope      *)
(* carry only inline image data; it does not return the empty string.      *)
(***************************************************************************)
OnlyInlineParts(env) ==
    /\ env.error = None
    /\ env.candidates = "parts"
    /\ env.parts # <<>>
    /\ \A k \in DOMAIN env.parts :
         env.parts[k].inlineData # None /\ env.parts[k].text = None

C11_ImageOnlyThrows ==
    (GotEnvelope /\ op \in TextOps /\ OnlyInlineParts(Envelope)) =>
        (thrown # None /\ retval # Some(<<>>))

(***************************************************************************)
(* C12 (as stated): when the envelope has an error object,                 *)
(* extractTextFromResponse throws an error that carries the upstream code  *)
(* and the upstream message, whether or not the envelope has parts.        *)
(***************************************************************************)
C12_AsStated ==
    (GotEnvelope /\ op \in TextOps /\ Envelope.error # None) =>
        /\ thrown # None
        /\ Includes(thrown[1].message, Envelope.error[1].message)
        /\ Includes(thrown[1].message, NumberToString(Envelope.error[1].code))

(***************************************************************************)
(* C12 (amended): when the envelope has an error object,                   *)
(* extractTextFromResponse throws 'Gemini error: <upstream message>',      *)
(* whether or not the envelope has parts; the upstream code is not part of *)
(* the error.                                                              *)
(***************************************************************************)
C12_ErrorObjectFirst ==
    (GotEnvelope /\ op \in TextOps /\ Envelope.error # None) =>
        /\ thrown = Some(MkError("Error",
                                 S_GeminiError \o Envelope.error[1].message))
        /\ retval = None

C12_Witness ==
    /\ op = "generateInspiration"
    /\ GotEnvelope
    /\ Envelope.error # None
    /\ Envelope.error[1].code = 500
    /\ Envelope.candidates = "parts"
    /\ Envelope.parts # <<>>
    /\ thrown # None

(***************************************************************************)
(* C13: when the upstream answers HTTP 200 with an error object in the     *)
(* envelope, callGeminiAPI has made one fetch and slept no backoff, and a  *)
(* single-call operation throws the upstream error; the image operations   *)
(* throw too, they do not return null.                                     *)
(***************************************************************************)
C13_EmbeddedErrorSurfaces ==
    (GotEnvelope /\ Envelope.error # None /\ seen = <<200>>) =>
        /\ CallFetches = 1
        /\ CallBackoffs = <<>>
        /\ op \notin BatchOps =>
             /\ pc = "done"
             /\ retval = None
             /\ thrown = Some(MkError("Error",
                                      S_GeminiError \o Envelope.error[1].message))

C13_Witness ==
    /\ op = "generateWithReference"
    /\ GotEnvelope
    /\ seen = <<200>>
    /\ Envelope.error # None
    /\ thrown # None
    /\ Len(trace) = 1

(***************************************************************************)
(* Request construction.  Every public function builds a model id, one     *)
(* user content and a config, and callGeminiAPI turns them into the body   *)
(* it posts.  args is the call, sent is what reaches fetch.  Temperatures  *)
(* are in hundredths.                                                      *)
(***************************************************************************)
MaxRefs == 2

TEXT_MODEL == "gemini-2.0-flash"
IMAGE_MODEL == "gemini-3-pro-image-preview"

S_DataImage == <<"d", "a", "t", "a", ":", "i", "m", "a", "g", "e", "/">>
S_Base64Marker == <<";", "b", "a", "s", "e", "6", "4", ",">>

\* length of the longest run of \w characters at the start of s
RECURSIVE WordRun(_)
WordRun(s) ==
    IF s # <<>> /\ Head(s) \in WordChars THEN 1 + WordRun(Tail(s)) ELSE 0

\* faulty variant: the prefix is left in place
cleanBase64_KeepsPrefix(s) == s

\* s.replace(/^data:image\/\w+;base64,/, '')
cleanBase64(s) ==
    IF ~StartsWith(s, S_DataImage) THEN s
    ELSE LET rest == Drop(s, Len(S_DataImage))
             n == WordRun(rest)
         IN  IF n >= 1 /\ StartsWith(Drop(rest, n), S_Base64Marker)
             THEN Drop(rest, n + Len(S_Base64Marker))
             ELSE s

\* the image strings a caller passes: a bare payload or a data URL
Forms == {"raw", "png", "jpeg", "svg"}
FormPrefix(form) ==
    CASE form = "raw" -> <<>>
      [] form = "png" -> <<"d", "a", "t", "a", ":", "i", "m", "a", "g", "e", "/", "p", "n", "g", ";", "b", "a", "s", "e", "6", "4", ",">>
      [] form = "jpeg" -> <<"d", "a", "t", "a", ":", "i", "m", "a", "g", "e", "/", "j", "p", "e", "g", ";", "b", "a", "s", "e", "6", "4", ",">>
      [] form = "svg" -> <<"d", "a", "t", "a", ":", "i", "m", "a", "g", "e", "/", "s", "v", "g", "+", "x", "m", "l", ";", "b", "a", "s", "e", "6", "4", ",">>
Payloads == {<<>>, <<"A", "Q", "=", "=">>, <<"d", "a", "t", "a">>}
MimeTypes == {"image/png", "image/jpeg"}
ImageString(img) == FormPrefix(img.form) \o img.payload

Images(mimes) == [form : Forms, payload : Payloads, mimeType : mimes]
ImageLists ==
    UNION {[1..n -> Images({Some(m) : m \in MimeTypes})] : n \in 0..MaxRefs}
AspectRatios == {None, Some("16:9"), Some("1:1")}

ListFns == {"generateDesigns", "generateTextileDesigns", "generateSingleDesign",
            "generateInspiration"}
IndexedFns == {"generateDesigns", "generateTextileDesigns", "generateSingleDesign"}
SingleFns == {"annotateImage", "editImage", "generateWithReference"}
DefaultMimeFns == {"annotateImage", "generateWithReference"}
AspectFns == {"generateWithReference", "generateImageFromPrompt"}
ImageFns == ListFns \cup SingleFns
Fns == ImageFns \cup {"generateImageFromPrompt"}

RequestArgs ==
    {a \in [fn : Fns,
            images : ImageLists \cup {<<img>> : img \in Images({None})},
            aspectRatio : AspectRatios,
            index : 0..(MaxCount - 1)] :
        /\ a.fn \in ListFns => \A k \in DOMAIN a.images : a.images[k].mimeType # None
        /\ a.fn \in SingleFns =>
             /\ Len(a.images) = 1
             /\ a.images[1].mimeType = None => a.fn \in DefaultMimeFns
        /\ a.fn \notin ImageFns => a.images = <<>>
        /\ a.fn \notin AspectFns => a.aspectRatio = None
        /\ a.fn \notin IndexedFns => a.index = 0}

\* the prompt text is not modelled beyond its being the first part
PromptPart(fn) == TextPart(<<fn>>)

OrDefault(opt, default) == IF opt = None THEN default ELSE opt[1]

\* [{ text: prompt }, ...referenceImages.map((img) => ({ inlineData: ... }))]
ReferenceParts(fn, images) ==
    <<PromptPart(fn)>> \o
    [k \in 1..Len(images) |->
        InlinePart(images[k].mimeType[1], cleanBase64(ImageString(images[k])))]

\* [{ text: prompt }, { inlineData: { mimeType, data: ... } }]
SingleImageParts(fn, img) ==
    <<PromptPart(fn),
      InlinePart(OrDefault(img.mimeType, "image/jpeg"),
                 cleanBase64(ImageString(img)))>>

Modalities == <<"IMAGE", "TEXT">>

\* ...(aspectRatio && { aspectRatio })
WithAspectRatio(config, aspectRatio) ==
    IF aspectRatio # None /\ aspectRatio[1] # ""
    THEN config @@ [aspectRatio |-> aspectRatio[1]]
    ELSE config

\* faulty variant: every index is requested with the base temperature
BatchConfig_Fixed(idx) ==
    [temperature |-> 80, responseModalities |-> Modalities]

\* the config of the request for index idx, temperatures in hundredths:
\* temperature: 0.8 + (i * 0.05), responseModalities: ['IMAGE', 'TEXT']
BatchConfig(idx) ==
    [temperature |-> 80 + idx * 5, responseModalities |-> Modalities]

\* the arguments each function hands to callGeminiAPI
CallArguments(a) ==
    CASE a.fn = "annotateImage" ->
           [model |-> TEXT_MODEL,
            parts |-> SingleImageParts(a.fn, a.images[1]),
            config |-> [temperature |-> 30, maxOutputTokens |-> 2048]]
      [] a.fn \in {"generateDesigns", "generateTextileDesigns",
                   "generateSingleDesign"} ->
           [model |-> IMAGE_MODEL,
            parts |-> ReferenceParts(a.fn, a.images),
            config |-> BatchConfig(a.index)]
      [] a.fn = "editImage" ->
           [model |-> IMAGE_MODEL,
            parts |-> SingleImageParts(a.fn, a.images[1]),
            config |-> [temperature |-> 70, responseModalities |-> Modalities]]
      [] a.fn = "generateWithReference" ->
           [model |-> IMAGE_MODEL,
            parts |-> SingleImageParts(a.fn, a.images[1]),
            config |-> WithAspectRatio(
                          [temperature |-> 80, responseModalities |-> Modalities],
                          a.aspectRatio)]
      [] a.fn = "generateImageFromPrompt" ->
           [model |-> IMAGE_MODEL,
            parts |-> <<PromptPart(a.fn)>>,
            config |-> WithAspectRatio(
                          [temperature |-> 80, responseModalities |-> Modalities],
                          a.aspectRatio)]
      [] a.fn = "generateInspiration" ->
           [model |-> TEXT_MODEL,
            parts |-> ReferenceParts(a.fn, a.images),
            config |-> [temperature |-> 80, maxOutputTokens |-> 1024]]

DEFAULT_TEMPERATURE == 70
DEFAULT_MAX_OUTPUT_TOKENS == 8192

\* config.x ?? default
Configured(config, key, default) ==
    IF key \in DOMAIN config THEN config[key] ELSE default

\* the generationConfig of the body callGeminiAPI builds
generationConfig(config) ==
    LET base == [temperature |->
                     Configured(config, "temperature", DEFAULT_TEMPERATURE),
                 maxOutputTokens |->
                     Configured(config, "maxOutputTokens", DEFAULT_MAX_OUTPUT_TOKENS)]
    IN  IF "responseModalities" \in DOMAIN config
        THEN base @@ [responseModalities |-> config.responseModalities]
        ELSE base

\* const body = { contents, generationConfig: { ... } }
body(contents, config) ==
    [contents |-> contents, generationConfig |-> generationConfig(config)]

InitRequest ==
    /\ CallIdle
    /\ RepairIdle
    /\ SideIdle
    /\ args \in RequestArgs
    /\ sent = None

\* the function runs up to the first fetch of callGeminiAPI
BuildRequest ==
    /\ args.fn \in Fns
    /\ sent = None
    /\ LET call == CallArguments(args)
       IN  sent' = Some([model |-> call.model,
                         body |-> body(<<[role |-> "user", parts |-> call.parts]>>,
                                       call.config)])
    /\ UNCHANGED <<callVars, repairVars, pair, route, args>>

NextRequest == BuildRequest

SpecRequest == InitRequest /\ [][NextRequest]_vars

\* what the request carries
SentParts == sent[1].body.contents[1].parts
SentInline == [k \in 1..(Len(SentParts) - 1) |-> SentParts[k + 1].inlineData[1]]
SentConfig == sent[1].body.generationConfig

\* C14: for every image-accepting function and every payload p, the image
\* string p and the image string 'data:image/png;base64,' + p both put p
\* itself in the inlineData.data field of the request, so the two requests
\* agree and a payload without a prefix passes through unchanged.
C14_PrefixStripping ==
    (sent # None /\ args.fn \in ImageFns) =>
        /\ Len(SentInline) = Len(args.images)
        /\ \A k \in DOMAIN args.images :
               args.images[k].form \in {"raw", "png"} =>
                   SentInline[k].data = args.images[k].payload

\* C14 witness: a request was built from a png data URL with a payload.
C14_Witness ==
    /\ sent # None
    /\ args.fn \in ImageFns
    /\ \E k \in DOMAIN args.images :
           /\ args.images[k].form = "png"
           /\ args.images[k].payload # <<>>
           /\ SentInline[k].data = args.images[k].payload

\* C15: every inlineData part of every request carries a mimeType and a
\* non-empty base64 payload, whatever image strings the caller passed.
C15_InlineDataNonEmpty ==
    sent # None =>
        \A k \in DOMAIN SentInline :
            /\ SentInline[k].mimeType # ""
            /\ SentInline[k].data # <<>>

\* C16: generateWithReference and generateImageFromPrompt called with an
\* aspectRatio send it in the generation configuration of the body, and
\* send none when it is omitted.
C16_AspectRatioSent ==
    (sent # None /\ args.fn \in AspectFns) =>
        IF args.aspectRatio # None
        THEN /\ "aspectRatio" \in DOMAIN SentConfig
             /\ SentConfig["aspectRatio"] = args.aspectRatio[1]
        ELSE "aspectRatio" \notin DOMAIN SentConfig

(***************************************************************************)
(* The texts parseJSONWithRepair is given: a body, possibly with a comma   *)
(* put in front of one of its closing braces or brackets, possibly inside  *)
(* a fenced code block, possibly with white space around it.               *)
(***************************************************************************)
ValidBodies ==
    { \* {"a": 1}
      <<"{", "\"", "a", "\"", ":", " ", "1", "}">>,
      \* {"a": 1, "b": [1, 2]}
      <<"{", "\"", "a", "\"", ":", " ", "1", ",", " ", "\"", "b", "\"", ":",
         " ", "[", "1", ",", " ", "2", "]", "}">>,
      \* {"a": ",}"}
      <<"{", "\"", "a", "\"", ":", " ", "\"", ",", "}", "\"", "}">>,
      \* {"a": ",,]"}
      <<"{", "\"", "a", "\"", ":", " ", "\"", ",", ",", "]", "\"", "}">>,
      \* {"a": 1\n, "b": 2}
      <<"{", "\"", "a", "\"", ":", " ", "1", "\n", ",", " ", "\"", "b", "\"",
         ":", " ", "2", "}">>,
      \* {\n  "a": 1,\n  "b": "x"\n}
      <<"{", "\n", " ", " ", "\"", "a", "\"", ":", " ", "1", ",", "\n", " ",
         " ", "\"", "b", "\"", ":", " ", "\"", "x", "\"", "\n", "}">>,
      \* [1, 2]
      <<"[", "1", ",", " ", "2", "]">>,
      \* [{"w": 0.5}, {"w": 1}]
      <<"[", "{", "\"", "w", "\"", ":", " ", "0", ".", "5", "}", ",", " ",
         "{", "\"", "w", "\"", ":", " ", "1", "}", "]">>,
      \* {"t": "[x], {y}"}
      <<"{", "\"", "t", "\"", ":", " ", "\"", "[", "x", "]", ",", " ", "{",
         "y", "}", "\"", "}">>,
      \* {"k": ["a"], "n": {"m": true}}
      <<"{", "\"", "k", "\"", ":", " ", "[", "\"", "a", "\"", "]", ",", " ",
         "\"", "n", "\"", ":", " ", "{", "\"", "m", "\"", ":", " ", "t", "r",
         "u", "e", "}", "}">>,
      \* {"a": null}
      <<"{", "\"", "a", "\"", ":", " ", "n", "u", "l", "l", "}">>,
      \* {"weight": 1, "a": 2}
      <<"{", "\"", "w", "e", "i", "g", "h", "t", "\"", ":", " ", "1", ",",
         " ", "\"", "a", "\"", ":", " ", "2", "}">> }

MalformedBodies ==
    { \* (the empty text)
      <<>>,
      \* oops
      <<"o", "o", "p", "s">>,
      \* {"a": 1
      <<"{", "\"", "a", "\"", ":", " ", "1">>,
      \* [{"weight": 0.5]
      <<"[", "{", "\"", "w", "e", "i", "g", "h", "t", "\"", ":", " ", "0",
         ".", "5", "]">>,
      \* [{"weight": 1 , {"weight": 2]
      <<"[", "{", "\"", "w", "e", "i", "g", "h", "t", "\"", ":", " ", "1",
         " ", ",", " ", "{", "\"", "w", "e", "i", "g", "h", "t", "\"", ":",
         " ", "2", "]">>,
      \* [{"weight": 0.5\n]
      <<"[", "{", "\"", "w", "e", "i", "g", "h", "t", "\"", ":", " ", "0",
         ".", "5", "\n", "]">>,
      \* [{"a": 1\n{"a": 2}]
      <<"[", "{", "\"", "a", "\"", ":", " ", "1", "\n", "{", "\"", "a", "\"",
         ":", " ", "2", "}", "]">>,
      \* [{"a": 1\n, {"a": 2}]
      <<"[", "{", "\"", "a", "\"", ":", " ", "1", "\n", ",", " ", "{", "\"",
         "a", "\"", ":", " ", "2", "}", "]">> }

FenceTags == {<<>>, <<"j", "s", "o", "n">>, <<"j", "s">>}

InString(s, k) ==
    Cardinality({j \in 1..(k - 1) :
                    s[j] = "\"" /\ (j = 1 \/ s[j - 1] # "\\")}) % 2 = 1

\* the closing braces and brackets of a body that can take a trailing comma
CommaSites(s) ==
    {k \in DOMAIN s :
        /\ s[k] \in {"}", "]"}
        /\ ~InString(s, k)
        /\ s[LastOutside(s, k, WS)] \notin {"{", "[", ","}}

WithComma(s, site) ==
    IF site = 0 THEN s
    ELSE LET at == LastOutside(s, site, WS)
         IN  SubSeq(s, 1, at) \o <<",">> \o Drop(s, at)

Fenced(fence, s) ==
    IF fence = None THEN s
    ELSE S_Fence \o fence[1] \o <<"\n">> \o s \o <<"\n">> \o S_Fence

Padded(padded, s) == IF padded THEN <<" ">> \o s \o <<"\n">> ELSE s

Text(in) == Padded(in.padded, Fenced(in.fence, WithComma(in.body, in.site)))

RepairInputs ==
    {in \in [body : ValidBodies \cup MalformedBodies,
             site : 0..Max({Len(b) : b \in ValidBodies}),
             fence : {None} \cup {Some(t) : t \in FenceTags},
             padded : BOOLEAN] :
        in.site # 0 => in.body \in ValidBodies /\ in.site \in CommaSites(in.body)}

InitRepair ==
    /\ CallIdle
    /\ RequestIdle
    /\ SideIdle
    /\ input \in RepairInputs
    /\ jpc = "try"
    /\ repaired = None
    /\ parses = <<>>
    /\ parsed = None
    /\ failure = None

\* faulty variant: the catch block runs whatever the first parse did
AfterFirstParse_Always(first) == "catch"

\* try { return JSON.parse(...) } catch (firstError) { ... }
AfterFirstParse(first) == IF first.threw THEN "catch" ELSE "done"

\* the argument of JSON.parse(repairJSON(text)) is evaluated
Repair ==
    /\ jpc = "try"
    /\ repaired = None
    /\ repaired' = Some(repairJSON(Text(input)))
    /\ UNCHANGED <<callVars, requestVars, pair, route, input, jpc, parses, parsed, failure>>

\* return JSON.parse(repairJSON(text)), or the jump to the catch block
FirstParse ==
    /\ jpc = "try"
    /\ repaired # None
    /\ LET first == JSON_parse(repaired[1])
       IN  /\ parses' = Append(parses, repaired[1])
           /\ jpc' = AfterFirstParse(first)
           /\ parsed' = IF jpc' = "done" /\ ~first.threw
                        THEN Some(first.value) ELSE parsed
    /\ UNCHANGED <<callVars, requestVars, pair, route, input, repaired, failure>>

\* the catch block: one more replacement, one more JSON.parse
SecondParse ==
    /\ jpc = "catch"
    /\ LET json == CloseWeights(repairJSON(Text(input)), 1)
           second == JSON_parse(json)
       IN  /\ parses' = Append(parses, json)
           /\ parsed' = IF second.threw THEN None ELSE Some(second.value)
           /\ failure' = IF second.threw THEN Some(second.error) ELSE None
    /\ jpc' = "done"
    /\ UNCHANGED <<callVars, requestVars, pair, route, input, repaired>>

NextRepair == Repair \/ FirstParse \/ SecondParse

SpecRepair == InitRepair /\ [][NextRepair]_vars

\* the text is valid JSON as it stands: no fence, no trailing comma
ValidInput ==
    /\ input.fence = None
    /\ input.site = 0
    /\ ~JSON_parse(Text(input)).threw

\* C17: for every valid JSON text v, repair(v) parses to the same value as
\* v, and repairing the repaired text changes nothing.
C17_RepairIdempotentOnValid ==
    (repaired # None /\ ValidInput) =>
        /\ JSON_parse(repaired[1]) = JSON_parse(Text(input))
        /\ repairJSON(repaired[1]) = repaired[1]

\* C18: for every JSON object text with a trailing comma before a closing
\* brace or bracket, wrapped in a fenced code block, parseJSONWithRepair
\* returns what a strict parse of the object text without that comma returns.
C18_FencedTrailingCommaRoundTrip ==
    (/\ jpc = "done"
     /\ input.fence # None
     /\ input.site # 0
     /\ JSON_parse(input.body).value[1] = "obj") =>
        /\ failure = None
        /\ parsed = Some(JSON_parse(input.body).value)

\* C19: whatever the language tag of the opening fence (none, json, or any
\* other), repair removes both fence markers, so that the result is the
\* repair of the text between the fences.
C19_FencesStripped ==
    (repaired # None /\ input.fence # None) =>
        repaired[1] = repairJSON(WithComma(input.body, input.site))

\* C20: parseJSONWithRepair parses at most twice: first repair(text); only
\* if that parse fails, once more repair(text) with the weight pass applied;
\* a first parse that succeeds is the answer, and a second parse that fails
\* is the failure the caller gets.
C20_AtMostTwoParses ==
    LET first == repairJSON(Text(input))
    IN  /\ Len(parses) <= 2
        /\ parses # <<>> => parses[1] = first
        /\ jpc = "catch" => Len(parses) = 1 /\ JSON_parse(first).threw
        /\ Len(parses) = 2 =>
               /\ JSON_parse(first).threw
               /\ parses[2] = CloseWeights(first, 1)
        /\ jpc = "done" =>
               LET last == JSON_parse(parses[Len(parses)])
               IN  /\ ~JSON_parse(first).threw => Len(parses) = 1
                   /\ IF last.threw
                      THEN /\ Len(parses) = 2
                           /\ failure = Some(last.error)
                           /\ parsed = None
                      ELSE /\ failure = None
                           /\ parsed = Some(last.value)

\* C20 witness: both parses failed and the second failure is the outcome.
C20_Witness ==
    /\ jpc = "done"
    /\ Len(parses) = 2
    /\ failure = Some(SyntaxError)
    /\ parsed = None

(***************************************************************************)
(* Single-call operations.                                                 *)
(***************************************************************************)
SingleOps == ImageOps \cup TextOps \cup JsonOps

S_Tags == <<"t", "a", "g", "s">>

\* C21: whenever annotateImage returns, the object it returns has a tags
\* array of 3 to 12 elements, whatever well-formed JSON the model answered.
C21_TagsBetween3And12 ==
    (op \in JsonOps /\ pc = "done" /\ retval # None) =>
        /\ retval[1][1] = "obj"
        /\ \E k \in DOMAIN retval[1][2] :
               /\ retval[1][2][k][1] = S_Tags
               /\ retval[1][2][k][2][1] = "arr"
               /\ Len(retval[1][2][k][2][2]) \in 3..12

\* C22: editImage, generateWithReference, annotateImage and
\* generateInspiration call callGeminiAPI once, and a failure of that call,
\* of the extraction or of the JSON parsing is what they throw: the same
\* error, with no value returned in its place.
C22_FailuresPropagate ==
    (op \in SingleOps /\ pc = "done") =>
        LET o == answer[1]
        IN  /\ calls = 1
            /\ (retval = None) # (thrown = None)
            /\ o.kind = "reject" =>
                   thrown = Some(MkError("TypeError", o.text))
            /\ (o.kind = "response" /\ ~ResponseOk(o.status)) =>
                   thrown = Some(RequestError(o.status, o.text))
            /\ (o.kind = "response" /\ ResponseOk(o.status) /\ o.json = None) =>
                   thrown = Some(MkError("SyntaxError", T_unexpected))
            /\ (GotEnvelope /\ Envelope.error # None) =>
                   thrown = Some(MkError("Error", S_GeminiError
                                            \o Envelope.error[1].message))
            /\ (GotEnvelope /\ Envelope.error = None /\ ~HasParts(Envelope)
                  /\ op \notin ImageOps) =>
                   thrown = Some(MkError("Error", S_NoContent))
            /\ (GotEnvelope /\ Envelope.error = None /\ op \in JsonOps
                  /\ Envelope.parts = <<TextPart(T_ok)>>) =>
                   thrown = Some(SyntaxError)

\* C22 witness: annotateImage got an answer that is not JSON and threw the
\* parser's error.
C22_Witness ==
    /\ op = "annotateImage"
    /\ pc = "done"
    /\ GotEnvelope
    /\ Envelope.parts = <<TextPart(T_ok)>>
    /\ thrown = Some(SyntaxError)
    /\ calls = 1

(***************************************************************************)
(* Two batch calls running in one process.  Each call of generateDesigns   *)
(* has its own frame: the loop index, the retry counter and the position   *)
(* are locals, and the module keeps nothing between calls.  A task is the  *)
(* frame of one call, with the numbers of pacing sleeps it has finished    *)
(* and of requests it has issued; the event loop interleaves the           *)
(* resumptions of the two calls in any order.                              *)
(***************************************************************************)
Batches == {1, 2}

PairOutcomes ==
    { Reject(T_fetchFailed),
      Response(503, T_bad, None),
      Response(429, T_quota, None),
      Response(200, <<>>,
               Some(GeminiResponse(None, "parts",
                                   <<InlinePart("image/png", DataA)>>))) }

Task(n) ==
    [pc |-> "init", count |-> n, i |-> 0, attempt |-> 0, paced |-> 0,
     fetched |-> 0]

\* callGeminiAPI is entered: the first fetch of the retry loop is issued
TaskEnterCall(t) ==
    [t EXCEPT !.pc = "fetch", !.attempt = 0, !.fetched = @ + 1]

\* the batch loop of one call from its test with i = idx
TaskLoopFrom(t, idx) ==
    IF idx < t.count
    THEN IF NeedsPacing(idx)
         THEN [t EXCEPT !.pc = "pace", !.i = idx]
         ELSE TaskEnterCall([t EXCEPT !.i = idx])
    ELSE [t EXCEPT !.pc = "done", !.i = idx]

\* the rest of the iteration once callGeminiAPI has returned or thrown
TaskAfterCall(t, r) ==
    LET x == IF r.threw THEN r ELSE extractImageFromResponse(r.value)
    IN  IF x.threw /\ IsRateLimited(x.error)
        THEN [t EXCEPT !.pc = "cooldown"]
        ELSE TaskLoopFrom(t, t.i + 1)

InitPair ==
    /\ CallIdle
    /\ RequestIdle
    /\ RepairIdle
    /\ route = NoRoute
    /\ pair \in [Batches -> {Task(n) : n \in 1..MaxCount}]

PairBegin(b) ==
    /\ pair[b].pc = "init"
    /\ pair' = [pair EXCEPT ![b] = TaskLoopFrom(@, 0)]
    /\ UNCHANGED <<callVars, requestVars, repairVars, route>>

PairPaceDone(b) ==
    /\ pair[b].pc = "pace"
    /\ pair' = [pair EXCEPT ![b] = TaskEnterCall([@ EXCEPT !.paced = @ + 1])]
    /\ UNCHANGED <<callVars, requestVars, repairVars, route>>

PairFetchResponds(b) ==
    /\ pair[b].pc = "fetch"
    /\ UNCHANGED <<callVars, requestVars, repairVars, route>>
    /\ \E o \in PairOutcomes :
         LET t == pair[b]
             r == callAttempt(t.attempt, o)
         IN  pair' = [pair EXCEPT ![b] =
                        CASE r.next = "retry" -> [t EXCEPT !.pc = "backoff"]
                          [] r.next = "throw" -> TaskAfterCall(t, Threw(r.error))
                          [] r.next = "return" ->
                                 TaskAfterCall(t, Returned(r.value))]

PairBackoffDone(b) ==
    /\ pair[b].pc = "backoff"
    /\ UNCHANGED <<callVars, requestVars, repairVars, route>>
    /\ LET t == pair[b]
       IN  pair' = [pair EXCEPT ![b] =
                      IF t.attempt + 1 < MAX_RETRIES
                      THEN [t EXCEPT !.pc = "fetch", !.attempt = @ + 1,
                                     !.fetched = @ + 1]
                      ELSE TaskAfterCall(t, Threw(MkError("Error", S_MaxRetries)))]

PairCooldownDone(b) ==
    /\ pair[b].pc = "cooldown"
    /\ pair' = [pair EXCEPT ![b] = TaskLoopFrom(@, @.i + 1)]
    /\ UNCHANGED <<callVars, requestVars, repairVars, route>>

NextPair ==
    \E b \in Batches :
        \/ PairBegin(b)
        \/ PairPaceDone(b)
        \/ PairFetchResponds(b)
        \/ PairBackoffDone(b)
        \/ PairCooldownDone(b)

SpecPair == InitPair /\ [][NextPair]_vars

\* C23: the pacing of a batch is its own: the 7000 ms sleeps a batch has
\* finished are one per index it has passed, whatever the other batch of
\* the process is doing, so that two batches can have requests in flight
\* with no pacing sleep between them.
C23_PacingPerBatch ==
    pair # NoPair =>
        \A b \in Batches :
            /\ pair[b].pc = "pace" =>
                   pair[b].i > 0 /\ pair[b].paced = pair[b].i - 1
            /\ pair[b].pc \in {"fetch", "backoff", "cooldown"} =>
                   pair[b].paced = pair[b].i
            /\ pair[b].pc = "done" =>
                   pair[b].paced = pair[b].count - 1

\* C23 witness: the two batches have each issued a request, both are in
\* flight, and no pacing sleep has been performed by either.
C23_Witness ==
    /\ pair # NoPair
    /\ \A b \in Batches :
           /\ pair[b].pc = "fetch"
           /\ pair[b].fetched = 1
           /\ pair[b].paced = 0

MaxPerRequest == 4

Latencies == {100, 1000}

BurstOutcomes ==
    { Response(503, T_bad, None),
      Response(429, T_quota, None),
      Response(200, <<>>,
               Some(GeminiResponse(None, "parts",
                                   <<InlinePart("image/png", DataA)>>))) }

InitBurst ==
    /\ RequestIdle
    /\ RepairIdle
    /\ SideIdle
    /\ upstream = BurstOutcomes
    /\ latency \in Latencies
    /\ op \in BatchOps
    /\ count = MaxPerRequest
    /\ pc = "init"
    /\ i = 0
    /\ attempt = 0
    /\ results = <<>>
    /\ retval = None
    /\ thrown = None
    /\ caught = None
    /\ items = <<>>
    /\ seen = <<>>
    /\ answer = None
    /\ calls = 0
    /\ inFlight = 0
    /\ trace = <<>>

SpecBurst == InitBurst /\ [][Next]_vars

\* the 10-requests-per-minute ceiling
RATE_LIMIT == 10
RATE_WINDOW_MS == 60000

\* the time, in ms since the call, at which event k of the trace starts
RECURSIVE StartTime(_)
StartTime(k) ==
    IF k <= 1 THEN 0
    ELSE StartTime(k - 1)
           + (IF trace[k - 1].ev = "fetch" THEN latency ELSE trace[k - 1].ms)

\* C25: counting every request of a batch, retries included, no window of
\* 60000 ms contains more than 10 of them: two requests with more than 10
\* requests from the one to the other are at least 60000 ms apart.
C25_TenPerMinute ==
    op \in BatchOps =>
        \A p, q \in FetchPositions :
            Cardinality({k \in FetchPositions : p <= k /\ k <= q}) > RATE_LIMIT =>
                StartTime(q) - StartTime(p) >= RATE_WINDOW_MS

(***************************************************************************)
(* Termination.  A fetch that was issued settles and a sleep that was      *)
(* started resolves: every resumption that is enabled eventually runs.     *)
(***************************************************************************)
SpecLive == Spec /\ WF_vars(Next)

\* the requests issued so far for batch index idx
FetchesOf(idx) == {k \in FetchPositions : trace[k].i = idx}

\* C26: a call of callGeminiAPI issues at most 3 requests, a retry is
\* started only while attempts remain, and, every fetch and sleep
\* completing, the operation ends: a single call after at most 3 requests,
\* a batch of count items after at most 3 * count.
C26_Terminates ==
    /\ [](/\ attempt < MAX_RETRIES
          /\ pc = "backoff" => attempt < MAX_RETRIES - 1
          /\ \A idx \in 0..Max({count - 1, 0}) :
                 Cardinality(FetchesOf(idx)) <= MAX_RETRIES
          /\ Cardinality(FetchPositions) <= MAX_RETRIES * count)
    /\ <>(pc = "done")

\* C26 witness: a batch has returned after 3 requests for each of its items.
C26_Witness ==
    /\ op \in BatchOps
    /\ count > 0
    /\ pc = "done"
    /\ retval # None
    /\ Cardinality(FetchPositions) = MAX_RETRIES * count

(***************************************************************************)
(* The cooldown of a batch.                                                *)
(***************************************************************************)
\* the cooldown sleeps started so far for batch index idx
CooldownsOf(idx) == {k \in DOMAIN trace : trace[k].ev = "cooldown" /\ trace[k].i = idx}

\* C27: in a batch the 60000 ms sleep follows a failed item exactly when
\* the message of the caught error contains '429', whatever the HTTP status
\* was and also after the last index; it follows no item that returned an
\* image or nothing, and happens once per failed item at most.
C27_CooldownExactlyOn429 ==
    op \in BatchOps =>
        /\ (caught # None /\ items # <<>> /\ items[Len(items)] = "failed") =>
               (CooldownsOf(Len(items) - 1) # {}
                    <=> Includes(caught[1].message, S_429))
        /\ \A k \in DOMAIN trace :
               trace[k].ev = "cooldown" =>
                   /\ trace[k] = SleepEvent("cooldown", trace[k].i, 0, 60000)
                   /\ trace[k].i + 1 \in DOMAIN items
                   /\ items[trace[k].i + 1] = "failed"
                   /\ k > 1
                   /\ trace[k - 1].ev = "fetch"
                   /\ trace[k - 1].i = trace[k].i
                   /\ CooldownsOf(trace[k].i) = {k}
        /\ pc = "cooldown" =>
               /\ caught # None
               /\ Includes(caught[1].message, S_429)
               /\ i = Len(items) - 1

\* C27 witness: the last item of a batch was answered with status 400 and a
\* body that contains '429', and the batch is in its 60000 ms sleep.
C27_Witness ==
    /\ op \in BatchOps
    /\ count > 1
    /\ pc = "cooldown"
    /\ i = count - 1
    /\ seen = <<400>>
    /\ answer = Some(Response(400, T_quota, None))
    /\ trace[Len(trace)] = SleepEvent("cooldown", count - 1, 0, 60000)

\* C28: callGeminiAPI retries after a 500 or 503 status and after a
\* rejected fetch (a TypeError) only: every answer of a call before its
\* last is one of these, a backoff sleep follows no other answer, and an
\* attempt that ends with another exception (a 200 answer whose body is
\* not JSON, the error built from another status) ends the call, with that
\* exception, no sleep and no further request.
C28_OnlyTransientRetried ==
    /\ \A k \in DOMAIN seen : k < Len(seen) => Transient(seen[k])
    /\ pc = "backoff" =>
           /\ Transient(seen[Len(seen)])
           /\ attempt < MAX_RETRIES - 1
    /\ \A k \in DOMAIN trace :
           trace[k].ev = "backoff" =>
               k > 1 /\ trace[k - 1] = FetchEvent(trace[k].i, trace[k].attempt)
    /\ (answer # None /\ ~Transient(answer[1].status)
          /\ (~ResponseOk(answer[1].status) \/ answer[1].json = None)) =>
           /\ CallEnded
           /\ CallFetches = Len(seen)
           /\ CallTrace[Len(CallTrace)] = FetchEvent(LatestIndex, Len(seen) - 1)
           /\ CallError =
                Some(IF ResponseOk(answer[1].status)
                     THEN MkError("SyntaxError", T_unexpected)
                     ELSE RequestError(answer[1].status, answer[1].text))

\* C28 witness: after one retried 503 the second attempt was answered 200
\* with a body that is not JSON, and the call ended there.
C28_Witness ==
    /\ CallEnded
    /\ seen = <<503, 200>>
    /\ answer # None
    /\ answer[1].json = None
    /\ CallFetches = 2
    /\ CallError = Some(MkError("SyntaxError", T_unexpected))

(***************************************************************************)
(* The generate route, from the point where it has its reference images    *)
(* and inspiration text: it calls generateDesigns for at most 4 images,    *)
(* then uploads each image and inserts its asset row and its               *)
(* generation_outputs row, and answers.  route.k is the image of the       *)
(* results the loop is at; uploaded, assets and rows are the images that   *)
(* have an object in the store, an asset row and a generation_outputs row; *)
(* attempted are the images the loop has reached.                          *)
(***************************************************************************)
RequestedCounts == {2, 4, 8, 12}

RouteOutcomes ==
    { Reject(T_fetchFailed),
      Response(429, T_quota, None),
      Response(200, <<>>,
               Some(GeminiResponse(None, "parts",
                                   <<InlinePart("image/png", DataA)>>))) }

\* faulty variant: the requested count is passed on as it is
actualCount_Unlimited(requested) == requested

\* const actualCount = Math.min(count, 4)
actualCount(requested) ==
    IF requested < MaxPerRequest THEN requested ELSE MaxPerRequest

RouteStart(n) == [NoRoute EXCEPT !.pc = "generate", !.requested = n]

InitRoute ==
    /\ RequestIdle
    /\ RepairIdle
    /\ pair = NoPair
    /\ upstream = RouteOutcomes
    /\ latency = 0
    /\ route \in {RouteStart(n) : n \in RequestedCounts}
    /\ op = "generateDesigns"
    /\ count = actualCount(route.requested)
    /\ pc = "init"
    /\ i = 0
    /\ attempt = 0
    /\ results = <<>>
    /\ retval = None
    /\ thrown = None
    /\ caught = None
    /\ items = <<>>
    /\ seen = <<>>
    /\ answer = None
    /\ calls = 0
    /\ inFlight = 0
    /\ trace = <<>>

\* return NextResponse.json({ success: true, ..., outputs, totalRequested:
\* count, totalGenerated: outputs.length })
Respond(rt) ==
    [rt EXCEPT !.pc = "responded",
               !.response = Some([success |-> TRUE,
                                  totalRequested |-> rt.requested,
                                  totalGenerated |-> Len(rt.outputs)])]

\* the head of the iteration for image n of generatedImages, up to the
\* upload, or the end of the loop and the response
SaveFrom(rt, n) ==
    IF n <= Len(results)
    THEN [rt EXCEPT !.pc = "upload", !.k = n, !.attempted = @ \cup {n}]
    ELSE Respond(rt)

\* uploadBase64ToR2 throws: the catch around the generation logs the error,
\* and the response follows
UploadFailed(rt) == Respond(rt)

\* generateDesigns has returned its images
DesignsReturned ==
    /\ route.pc = "generate"
    /\ pc = "done"
    /\ route' = SaveFrom(route, 1)
    /\ UNCHANGED <<callVars, requestVars, repairVars, pair>>

\* await uploadBase64ToR2 settles
UploadSettles ==
    /\ route.pc = "upload"
    /\ \E ok \in BOOLEAN :
         route' = IF ok
                  THEN [route EXCEPT !.pc = "asset", !.uploaded = @ \cup {route.k}]
                  ELSE UploadFailed(route)
    /\ UNCHANGED <<callVars, requestVars, repairVars, pair>>

\* the insert into assets settles: if (assetError) continue
AssetInsertSettles ==
    /\ route.pc = "asset"
    /\ \E ok \in BOOLEAN :
         route' = IF ok
                  THEN [route EXCEPT !.pc = "output", !.assets = @ \cup {route.k}]
                  ELSE SaveFrom(route, route.k + 1)
    /\ UNCHANGED <<callVars, requestVars, repairVars, pair>>

\* the insert into generation_outputs settles: if (outputError) continue,
\* else outputs.push
OutputInsertSettles ==
    /\ route.pc = "output"
    /\ \E ok \in BOOLEAN :
         route' = IF ok
                  THEN SaveFrom([route EXCEPT !.rows = @ \cup {route.k},
                                              !.outputs = Append(@, route.k)],
                                route.k + 1)
                  ELSE SaveFrom(route, route.k + 1)
    /\ UNCHANGED <<callVars, requestVars, repairVars, pair>>

NextRoute ==
    \/ Begin
    \/ PaceDone
    \/ FetchResponds
    \/ BackoffDone
    \/ CooldownDone
    \/ DesignsReturned
    \/ UploadSettles
    \/ AssetInsertSettles
    \/ OutputInsertSettles

SpecRoute == InitRoute /\ [][NextRoute]_vars

\* C29: whatever count was requested the route makes at most 4 image
\* calls, and its response has success true, totalRequested equal to the
\* requested count and totalGenerated <= min(count, 4) <= totalRequested,
\* also when no image was generated.
C29_AtMostFourPerRequest ==
    route # NoRoute =>
        LET least == IF route.requested < 4 THEN route.requested ELSE 4
        IN  /\ calls <= 4
            /\ calls <= route.requested
            /\ Len(results) <= least
            /\ route.pc = "responded" =>
                   /\ route.response[1].success
                   /\ route.response[1].totalRequested = route.requested
                   /\ route.response[1].totalGenerated = Len(route.outputs)
                   /\ route.response[1].totalGenerated <= least
                   /\ least <= route.response[1].totalRequested

\* C29 witness: 12 images were requested, 4 calls were made, none gave an
\* image, and the response says success with 12 requested and 0 generated.
C29_Witness ==
    /\ route.pc = "responded"
    /\ route.requested = 12
    /\ calls = 4
    /\ results = <<>>
    /\ route.response =
         Some([success |-> TRUE, totalRequested |-> 12, totalGenerated |-> 0])

\* C30: a persistence failure of one generated image affects that image
\* only: when the route answers, every image generateDesigns returned has
\* been attempted, every image whose upload and two inserts succeeded is
\* listed in outputs, and every entry of outputs has its object, its asset
\* row and its generation_outputs row.
C30_PersistenceFailureIsolated ==
    route.pc = "responded" =>
        /\ route.attempted = DOMAIN results
        /\ \A n \in DOMAIN route.outputs :
               /\ route.outputs[n] \in route.uploaded
               /\ route.outputs[n] \in route.assets
               /\ route.outputs[n] \in route.rows

====
